---- MODULE Spec2Model ----
(***************************************************************************)
(* GitHubSyncService (src/CHANGELOG.md, lines 200-562): the repository     *)
(* synchronisation service that merges a push channel (WebSocket) and a    *)
(* poll channel (setInterval + axios.get) into one event stream.           *)
(*                                                                         *)
(* JavaScript runs every handler to completion, so one action is one       *)
(* handler (or one public method call) with every call it makes.  The only *)
(* suspension point of the service is the `await axios.get` of             *)
(* pollRepositories: the request is issued by one action and its response  *)
(* is handled by a later one.  The handlers of a socket are closures over  *)
(* the service, not over the socket, so an event of any socket the service *)
(* ever created runs them.                                                 *)
(*                                                                         *)
(* The specifications share the state and the handlers: Spec is the        *)
(* service with its two channels and no subscriber; BusSpec is the service *)
(* with subscribers, push messages and manual syncs; PanelSpec is the      *)
(* service under the GitHubSyncPanel component                             *)
(* (src/frontend/src/components/GitHubSync/GitHubSync_GitHubSyncPanel.jsx),*)
(* whose callbacks run inside notifyListeners.  HistorySpec and MergeSpec  *)
(* watch the panel's history at full length and under both channels,       *)
(* ConfigSpec starts the service with options it cannot work with,         *)
(* FailureSpec lets the channels fail under a subscriber that throws,      *)
(* LiveSpec adds the fairness of the interval timer and of the server,     *)
(* OverlapSpec lets status requests outlive the polling interval, and      *)
(* RetrySpec changes the number of retries between the starts.             *)
(***************************************************************************)
EXTENDS Integers, Sequences, FiniteSets, TLC

\* ---------------------------------------------------------------- bounds
\* number of WebSocket objects that may exist at the same time (held by the
\* service, or dropped by it with their close event still to come)
MaxSockets == 2
\* number of retry timers that may be pending at the same time
MaxRetryTimers == 1
\* number of poll requests that may be in flight at the same time
MaxInflight == 1
\* number of callbacks that callers other than the panel may have
\* registered at the same time, all event kinds together
MaxListeners == 2
\* number of syncRepository calls that may await their response at the same
\* time
MaxPending == 1
\* number of entries the sync history of the panel may have, where the
\* panel is watched with every kind of event
MaxHistory == 3
\* number of runs of equal entries the sync history may have, where it is
\* watched up to its full length
MaxRuns == 2
\* the latest time the clock of the panel shows
MaxClock == 1
\* number of poll requests that may be in flight at the same time, where the
\* poll channel is watched with requests that outlive the polling interval
MaxOverlap == 2

\* ------------------------------------------------------ program constants
\* constructor defaults of this.config
DefaultPollingInterval == 60000
DefaultMaxRetries == 3
DefaultRetryDelay == 5000
\* the close code of an intentional disconnect, and the code a browser
\* reports for a connection that was lost or never established
IntentionalCode == 1000
AbnormalCode == 1006

\* prev.slice(0, 19): the entries of the sync history the panel keeps below
\* a new one
HistoryKept == 19

\* this.pollingTimeout === null
Null == 0
\* this.socket === null
NoSocket == "null"

VARIABLES
  config,          \* this.config
  isConnected,     \* this.isConnected
  socket,          \* this.socket: NoSocket or the WebSocket object held, which
                   \* is known by its readyState
  pollingTimeout,  \* this.pollingTimeout: Null or the id of an interval timer
  retryCount,      \* this.retryCount
  dropped,         \* the WebSocket objects the service created and no longer
                   \* holds, whose events still run its handlers: how many
                   \* there are in each readyState
  intervals,       \* interval timers set with setInterval and not cleared
  retryTimers,     \* number of setTimeout(() => this.connectWebSocket(), delay)
                   \* timers that are pending
  timeoutDelay,    \* the delay the last handler passed to setTimeout (0: it
                   \* set no timer)
  inflight,        \* axios.get requests of pollRepositories awaiting a response
  events,          \* events handed to notifyListeners by the last handler
  lastStatus,      \* data of the last connection-status event
  listeners,       \* this.listeners: for each event kind, the callbacks
                   \* registered, in the order of the array
  calls,           \* the callbacks invoked by the last handler, in order, each
                   \* with the data it was given
  pending,         \* axios.post requests of syncRepository awaiting a response,
                   \* by repository name
  outcome,         \* how the last handler ended: what it returned (or what
                   \* its promise resolved with), or what it threw
  panel,           \* state of the GitHubSyncPanel component: repositories,
                   \* syncStatus, error, syncHistory, and the clock it reads
  lastOp,          \* the handler that ran last, and the branch it took
  phase,           \* "new"; "started" / "stopped" by the last of startSync and
                   \* stopSync; "exhausted" once the onclose fallback branch
                   \* ran while started
  failRun          \* non-intentional closes since the last successful open

vars == <<config, isConnected, socket, pollingTimeout, retryCount, dropped,
          intervals, retryTimers, timeoutDelay, inflight, events, lastStatus,
          listeners, calls, pending, outcome, panel, lastOp, phase, failRun>>

\* ------------------------------------------------------------ event data
ConnStatus(status, method) ==
  [kind |-> "connection-status", status |-> status, method |-> method]

SyncError(error) ==
  [kind |-> "sync-error", error |-> error]

RepoUpdated(repository, source) ==
  [kind |-> "repo-updated", repository |-> repository, source |-> source]

\* a repo-updated event of a push message: payload names the fields the
\* message contributes ("branch,commits" or "pullRequest,action")
WebhookUpdate(repository, payload) ==
  [kind |-> "repo-updated", repository |-> repository, source |-> "webhook",
   payload |-> payload]

\* the repo-updated event of syncRepository
ManualUpdate(repository, changes) ==
  [kind |-> "repo-updated", repository |-> repository, source |-> "manual",
   changes |-> changes]

\* the sync-error event of syncRepository: details is error.message
SyncFailed(repoName, details) ==
  [kind |-> "sync-error", error |-> "Failed to sync repository " \o repoName,
   details |-> details]

\* the event kinds the constructor gives a listener array
EventKinds == {"repo-updated", "sync-error", "connection-status"}

\* the value undefined: what a property an object does not have reads as,
\* and what a function without a return value returns
Undefined == [undefined |-> TRUE]

\* data[f], for an object data
Get(data, f) == IF f \in DOMAIN data THEN data[f] ELSE Undefined

\* data[f] === value, for an object data
Is(data, f, value) == f \in DOMAIN data /\ data[f] = value

\* the repo-updated event of pollRepositories for the entry repo of the
\* status response: lastUpdate is the time the server gives for the change
PollUpdate(repo) ==
  [kind |-> "repo-updated", repository |-> repo.name, source |-> "polling",
   lastUpdate |-> repo.lastUpdate, changes |-> Get(repo, "changes")]

\* how a handler ends
Returned(value) == [kind |-> "returned", value |-> value]
Thrown(err) == [kind |-> "thrown", value |-> err]

\* --------------------------------------------------------- service state
\* The fields of the service together with the browser objects it owns, as
\* one record the methods below transform.
Svc ==
  [config |-> config, isConnected |-> isConnected, socket |-> socket,
   pollingTimeout |-> pollingTimeout, retryCount |-> retryCount,
   dropped |-> dropped, intervals |-> intervals, retryTimers |-> retryTimers,
   timeoutDelay |-> 0, inflight |-> inflight, events |-> <<>>,
   lastStatus |-> lastStatus, listeners |-> listeners, calls |-> <<>>,
   pending |-> pending, outcome |-> Returned(Undefined), panel |-> panel]

\* readyState of a WebSocket object whose close event is still to come
ReadyStates == {"connecting", "open", "closing-unopened", "closing"}

Commit(st) ==
  /\ config' = st.config
  /\ isConnected' = st.isConnected
  /\ socket' = st.socket
  /\ pollingTimeout' = st.pollingTimeout
  /\ retryCount' = st.retryCount
  /\ dropped' = st.dropped
  /\ intervals' = st.intervals
  /\ retryTimers' = st.retryTimers
  /\ timeoutDelay' = st.timeoutDelay
  /\ inflight' = st.inflight
  /\ events' = st.events
  /\ lastStatus' = st.lastStatus
  /\ listeners' = st.listeners
  /\ calls' = st.calls
  /\ pending' = st.pending
  /\ outcome' = st.outcome
  /\ panel' = st.panel

\* ------------------------------------------------------------ sync panel
\* The callbacks the GitHubSyncPanel component registers.  React applies the
\* updater functions they queue in the order they were queued, with no other
\* update in between.
Min(a, b) == IF a <= b THEN a ELSE b

\* prevRepos.findIndex(repo => repo.name === name): 0 stands for -1
FindIndex(repos, name) ==
  IF \E i \in DOMAIN repos : repos[i].name = name
  THEN CHOOSE i \in DOMAIN repos :
         /\ repos[i].name = name
         /\ \A j \in DOMAIN repos : repos[j].name = name => i <= j
  ELSE 0

\* the history that drops its newest entry for a new one, when it is full
Prepend_EvictsNewest(entry, prev) ==
  IF Len(prev) > HistoryKept
  THEN <<entry>> \o SubSeq(prev, 2, Len(prev))
  ELSE <<entry>> \o prev

\* [entry, ...prev.slice(0, 19)]
Prepend(entry, prev) ==
  <<entry>> \o SubSeq(prev, 1, Min(Len(prev), HistoryKept))

\* the state of a component instance: the initial values of its useState
\* hooks.  mounted and fetching are the component's life in React and its
\* fetch('/api/github/repos') awaiting a response; clock is the time
\* new Date() gives the component.
PanelInit ==
  [repositories |-> <<>>,
   syncStatus |-> [status |-> "disconnected", method |-> "null"],
   error |-> "null",
   syncHistory |-> <<>>,
   mounted |-> FALSE,
   fetching |-> FALSE,
   clock |-> 0]

\* handleRepoUpdate that records an event only when the history has no entry
\* of that repository from another source
handleRepoUpdate_Suppresses(st, data) ==
  LET prevRepos == st.panel.repositories
      existingRepoIndex == FindIndex(prevRepos, data.repository)
      now == st.panel.clock
      repos == IF existingRepoIndex > 0
               THEN [prevRepos EXCEPT ![existingRepoIndex] =
                       [@ EXCEPT !.lastUpdate = now,
                                 !.hasChanges = TRUE,
                                 !.lastEvent = data]]
               ELSE Append(prevRepos, [name |-> data.repository,
                                       lastUpdate |-> now,
                                       hasChanges |-> TRUE,
                                       lastEvent |-> data])
      entry == [timestamp |-> now, error |-> FALSE,
                repository |-> data.repository,
                source |-> data.source, details |-> data]
      reported == \E i \in DOMAIN st.panel.syncHistory :
                    /\ ~st.panel.syncHistory[i].error
                    /\ st.panel.syncHistory[i].repository = data.repository
                    /\ st.panel.syncHistory[i].source # data.source
  IN [st EXCEPT !.panel.repositories = repos,
                !.panel.syncHistory = IF reported THEN @ ELSE Prepend(entry, @),
                !.panel.error = "null"]

\* handleRepoUpdate(data)
handleRepoUpdate(st, data) ==
  LET prevRepos == st.panel.repositories
      existingRepoIndex == FindIndex(prevRepos, data.repository)
      now == st.panel.clock
      repos == IF existingRepoIndex > 0
               THEN [prevRepos EXCEPT ![existingRepoIndex] =
                       [@ EXCEPT !.lastUpdate = now,
                                 !.hasChanges = TRUE,
                                 !.lastEvent = data]]
               ELSE Append(prevRepos, [name |-> data.repository,
                                       lastUpdate |-> now,
                                       hasChanges |-> TRUE,
                                       lastEvent |-> data])
      entry == [timestamp |-> now, error |-> FALSE,
                repository |-> data.repository,
                source |-> data.source, details |-> data]
  IN [st EXCEPT !.panel.repositories = repos,
                !.panel.syncHistory = Prepend(entry, @),
                !.panel.error = "null"]

\* handleConnectionStatus(data)
handleConnectionStatus(st, data) ==
  LET s1 == [st EXCEPT !.panel.syncStatus =
                         [status |-> data.status, method |-> data.method]]
  IN IF data.status = "error"
     THEN [s1 EXCEPT !.panel.error =
                       "Connection error. Check network or server status."]
     ELSE IF data.status = "connected"
          THEN [s1 EXCEPT !.panel.error = "null"]
          ELSE s1

\* handleSyncError(data)
handleSyncError(st, data) ==
  LET entry == [timestamp |-> st.panel.clock, error |-> TRUE, details |-> data]
  IN [st EXCEPT !.panel.error = data.error,
                !.panel.syncHistory = Prepend(entry, @)]

\* fetchRepositories() after its awaits, the response having the list repos
fetchSucceeded(st, repos) ==
  IF st.panel.mounted
  THEN [st EXCEPT !.panel.repositories = repos, !.panel.fetching = FALSE]
  ELSE [st EXCEPT !.panel.fetching = FALSE]

\* handleManualSync(repoName) after its await, syncRepository having thrown
manualSyncFailed(st, err) ==
  IF st.panel.mounted
  THEN [st EXCEPT !.panel.error = "Manual sync failed: " \o err.message]
  ELSE st

\* ------------------------------------------------------------- notification
\* cbs.indexOf(callback): 0 stands for -1
FindFirst(cbs, callback) ==
  IF \E i \in DOMAIN cbs : cbs[i] = callback
  THEN CHOOSE i \in DOMAIN cbs :
         cbs[i] = callback /\ \A j \in 1..(i - 1) : cbs[j] # callback
  ELSE 0

\* The callbacks of the model: the three of the panel, one that throws
\* whenever it is called ("failing") and one that returns ("observer").
Callbacks ==
  {"handleRepoUpdate", "handleConnectionStatus", "handleSyncError",
   "failing", "observer"}

\* try { callback(data) } catch (error) { console.error(...) }
Invoke(st, callback, ev) ==
  LET s1 == [st EXCEPT !.calls = Append(@, [callback |-> callback, data |-> ev])]
  IN CASE callback = "handleRepoUpdate" -> handleRepoUpdate(s1, ev)
       [] callback = "handleConnectionStatus" -> handleConnectionStatus(s1, ev)
       [] callback = "handleSyncError" -> handleSyncError(s1, ev)
       [] OTHER -> s1

\* the record of an event: the events of the running handler in order, and
\* the data of the last connection-status event
Emitted(st, ev) ==
  [st EXCEPT !.events = Append(@, ev),
             !.lastStatus = IF ev.kind = "connection-status"
                            THEN [status |-> ev.status, method |-> ev.method]
                            ELSE @]

\* notifyListeners without the try/catch around the callback: the exception
\* of a callback ends the forEach
notifyListeners_NoCatch(st, ev) ==
  LET cbs == st.listeners[ev.kind]
      run[i \in 0..Len(cbs)] ==
        IF i = 0 THEN st
        ELSE IF \E j \in 1..(i - 1) : cbs[j] = "failing"
             THEN run[i - 1]
             ELSE Invoke(run[i - 1], cbs[i], ev)
  IN Emitted(run[Len(cbs)], ev)

\* notifyListeners that walks the array from its end
notifyListeners_LastFirst(st, ev) ==
  LET cbs == st.listeners[ev.kind]
      run[i \in 0..Len(cbs)] ==
        IF i = 0 THEN st ELSE Invoke(run[i - 1], cbs[Len(cbs) + 1 - i], ev)
  IN Emitted(run[Len(cbs)], ev)

\* notifyListeners(event, data): every callback of the array of the event's
\* kind is called with the data, in array order, each in its own try/catch.
notifyListeners(st, ev) ==
  LET cbs == st.listeners[ev.kind]
      run[i \in 0..Len(cbs)] ==
        IF i = 0 THEN st ELSE Invoke(run[i - 1], cbs[i], ev)
  IN Emitted(run[Len(cbs)], ev)

\* addEventListener(event, callback)
addEventListener(st, event, callback) ==
  IF event \in DOMAIN st.listeners
  THEN [st EXCEPT !.listeners[event] = Append(@, callback)]
  ELSE st

\* removeEventListener that removes the first occurrence of the callback
\* only (splice at indexOf)
removeEventListener_FirstOnly(st, event, callback) ==
  IF event \in DOMAIN st.listeners
  THEN LET cbs == st.listeners[event]
           first == FindFirst(cbs, callback)
       IN IF first > 0
          THEN [st EXCEPT !.listeners[event] =
                  SubSeq(cbs, 1, first - 1) \o SubSeq(cbs, first + 1, Len(cbs))]
          ELSE st
  ELSE st

\* removeEventListener(event, callback)
removeEventListener(st, event, callback) ==
  IF event \in DOMAIN st.listeners
  THEN [st EXCEPT !.listeners[event] = SelectSeq(@, LAMBDA cb : cb # callback)]
  ELSE st

\* ------------------------------------------------------------ poll channel
\* stopPolling that clears the timer and keeps its handle
stopPolling_KeepsHandle(st) ==
  IF st.pollingTimeout # Null
  THEN [st EXCEPT !.intervals = {t \in @ : t.id # st.pollingTimeout}]
  ELSE st

\* stopPolling(): clearInterval and forget the handle, when there is one.
stopPolling(st) ==
  IF st.pollingTimeout # Null
  THEN [st EXCEPT !.intervals = {t \in @ : t.id # st.pollingTimeout},
                  !.pollingTimeout = Null]
  ELSE st

\* pollRepositories that issues no request while one is in flight
pollRepositories_Guarded(st) ==
  IF st.inflight > 0 THEN st ELSE [st EXCEPT !.inflight = @ + 1]

\* pollRepositories() up to its await: the status request is issued.
pollRepositories(st) ==
  [st EXCEPT !.inflight = @ + 1]

\* the id setInterval returns: one no active timer has
NewTimerId(st) ==
  CHOOSE i \in 1..(Cardinality(st.intervals) + 1) :
    \A t \in st.intervals : t.id # i

\* startPolling that polls once and sets no timer
startPolling_PollsOnce(st) ==
  pollRepositories(stopPolling(st))

\* startPolling that does not clear the timer that is running
startPolling_NoStop(st) ==
  LET s2 == pollRepositories(st)
      id == NewTimerId(s2)
  IN [s2 EXCEPT !.intervals = @ \cup {[id |-> id, interval |-> s2.config.pollingInterval]},
                !.pollingTimeout = id]

\* startPolling(): stop, poll at once, then poll on a fixed-interval timer.
startPolling(st) ==
  LET s1 == stopPolling(st)
      s2 == pollRepositories(s1)
      id == NewTimerId(s2)
  IN [s2 EXCEPT !.intervals = @ \cup {[id |-> id, interval |-> s2.config.pollingInterval]},
                !.pollingTimeout = id]

\* pollRepositories that reports every repository of the response
pollSucceeded_ReportsAll(st, repos) ==
  LET upd[i \in 0..Len(repos)] ==
        IF i = 0 THEN st
        ELSE notifyListeners(upd[i - 1], PollUpdate(repos[i]))
      s1 == upd[Len(repos)]
  IN IF ~s1.isConnected
     THEN notifyListeners([s1 EXCEPT !.isConnected = TRUE],
                          ConnStatus("connected", "polling"))
     ELSE s1

\* pollRepositories() after the await, the request having succeeded with
\* response.data.repositories = repos.
pollSucceeded(st, repos) ==
  LET upd[i \in 0..Len(repos)] ==
        IF i = 0 THEN st
        ELSE IF repos[i].hasChanges
             THEN notifyListeners(upd[i - 1], PollUpdate(repos[i]))
             ELSE upd[i - 1]
      s1 == upd[Len(repos)]
  IN IF ~s1.isConnected
     THEN notifyListeners([s1 EXCEPT !.isConnected = TRUE],
                          ConnStatus("connected", "polling"))
     ELSE s1

\* pollRepositories whose catch gives the schedule up
pollFailed_StopsPolling(st) ==
  LET s1 == notifyListeners(st, SyncError("Repository polling failed"))
      s2 == IF s1.isConnected
            THEN notifyListeners([s1 EXCEPT !.isConnected = FALSE],
                                 ConnStatus("error", "none"))
            ELSE s1
  IN stopPolling(s2)

\* pollRepositories() after the await, the request having failed (catch).
pollFailed(st) ==
  LET s1 == notifyListeners(st, SyncError("Repository polling failed"))
  IN IF s1.isConnected
     THEN notifyListeners([s1 EXCEPT !.isConnected = FALSE],
                          ConnStatus("error", "none"))
     ELSE s1

\* ------------------------------------------------------------- manual sync
\* syncRepository(repoName, options) up to its await: the sync request is
\* issued and the caller holds a promise.
syncRepository(st, repoName) ==
  [st EXCEPT !.pending[repoName] = @ + 1]

\* syncRepository that reports the failure as an event only
syncFailed_Swallows(st, repoName, err) ==
  notifyListeners([st EXCEPT !.pending[repoName] = @ - 1],
                  SyncFailed(repoName, err.message))

\* syncRepository() after the await, the request having failed with err
\* (catch): the event, then throw error.
syncFailed(st, repoName, err) ==
  LET s1 == notifyListeners([st EXCEPT !.pending[repoName] = @ - 1],
                            SyncFailed(repoName, err.message))
  IN [s1 EXCEPT !.outcome = Thrown(err)]

\* syncRepository that names the channel of the last status in the event
syncSucceeded_ChannelSource(st, repoName, data) ==
  LET s1 == notifyListeners([st EXCEPT !.pending[repoName] = @ - 1],
              [ManualUpdate(repoName, Get(data, "changes"))
                 EXCEPT !.source = st.lastStatus.method])
  IN [s1 EXCEPT !.outcome = Returned(data)]

\* syncRepository() after the await, the request having succeeded with
\* response.data = data: the event, then return response.data.
syncSucceeded(st, repoName, data) ==
  LET s1 == notifyListeners([st EXCEPT !.pending[repoName] = @ - 1],
                            ManualUpdate(repoName, Get(data, "changes")))
  IN [s1 EXCEPT !.outcome = Returned(data)]

\* ------------------------------------------------------------ push channel
\* WebSocket.close(code) as the browser performs it: a socket that is
\* connecting or open starts closing and its close event is delivered
\* later; a socket that is closing or closed is left as it is.
CloseSocket(readyState) ==
  CASE readyState = "connecting" -> "closing-unopened"
    [] readyState = "open" -> "closing"
    [] OTHER -> readyState

\* the sockets in existence: the held one and the dropped ones
NumSockets(st) ==
  (IF st.socket # NoSocket THEN 1 ELSE 0)
  + st.dropped["connecting"] + st.dropped["open"]
  + st.dropped["closing-unopened"] + st.dropped["closing"]

\* disconnectWebSocket(): close the held socket with the intentional code
\* and forget it.
disconnectWebSocket(st) ==
  IF st.socket # NoSocket
  THEN LET rs == CloseSocket(st.socket)
       IN IF rs = "closed"
          THEN [st EXCEPT !.socket = NoSocket]
          ELSE [st EXCEPT !.dropped[rs] = @ + 1, !.socket = NoSocket]
  ELSE st

\* connectWebSocket() without its "ensure no existing connection" step: the
\* held socket is overwritten, not closed.
connectWebSocket_KeepsOld(st, threw) ==
  LET s1 == IF st.socket \in ReadyStates
            THEN [st EXCEPT !.dropped[st.socket] = @ + 1, !.socket = NoSocket]
            ELSE [st EXCEPT !.socket = NoSocket]
  IN IF ~threw
     THEN [s1 EXCEPT !.socket = "connecting"]
     ELSE LET s2 == notifyListeners(s1,
                      SyncError("Failed to establish WebSocket connection"))
          IN IF s2.config.usePolling /\ s2.pollingTimeout = Null
             THEN startPolling(s2)
             ELSE s2

\* connectWebSocket without its try/catch: what the WebSocket constructor
\* throws leaves the method
connectWebSocket_NoCatch(st, threw) ==
  LET s1 == IF st.socket # NoSocket THEN disconnectWebSocket(st) ELSE st
  IN IF ~threw
     THEN [s1 EXCEPT !.socket = "connecting"]
     ELSE [s1 EXCEPT !.outcome = Thrown([message |-> "WebSocket is not defined"])]

\* connectWebSocket(): drop the held socket, create a new one.  threw says
\* whether the WebSocket constructor threw (the catch branch).
connectWebSocket(st, threw) ==
  LET s1 == IF st.socket # NoSocket THEN disconnectWebSocket(st) ELSE st
  IN IF ~threw
     THEN [s1 EXCEPT !.socket = "connecting"]
     ELSE LET s2 == notifyListeners(s1,
                      SyncError("Failed to establish WebSocket connection"))
          IN IF s2.config.usePolling /\ s2.pollingTimeout = Null
             THEN startPolling(s2)
             ELSE s2

\* socket.onopen that leaves retryCount as it is
onopen_KeepsRetryCount(st) ==
  notifyListeners([st EXCEPT !.isConnected = TRUE],
                  ConnStatus("connected", "webhook"))

\* socket.onopen
onopen(st) ==
  notifyListeners([st EXCEPT !.isConnected = TRUE, !.retryCount = 0],
                  ConnStatus("connected", "webhook"))

\* socket.onerror
onerror(st) ==
  notifyListeners(st, SyncError("WebSocket connection error"))

\* socket.onclose whose fallback branch reports the error and starts nothing
onclose_NoFallback(st, code) ==
  LET s1 == notifyListeners([st EXCEPT !.isConnected = FALSE],
                            ConnStatus("disconnected", "none"))
  IN IF code # IntentionalCode
     THEN IF s1.retryCount < s1.config.maxRetries
          THEN LET n == s1.retryCount + 1
                   delay == n * s1.config.retryDelay
               IN [s1 EXCEPT !.retryCount = n,
                             !.retryTimers = @ + 1,
                             !.timeoutDelay = delay]
          ELSE notifyListeners(s1,
                 SyncError("WebSocket connection failed after max retries"))
     ELSE s1

\* socket.onclose that retries while retryCount <= maxRetries
onclose_OneRetryMore(st, code) ==
  LET s1 == notifyListeners([st EXCEPT !.isConnected = FALSE],
                            ConnStatus("disconnected", "none"))
  IN IF code # IntentionalCode
     THEN IF s1.retryCount <= s1.config.maxRetries
          THEN LET n == s1.retryCount + 1
                   delay == n * s1.config.retryDelay
               IN [s1 EXCEPT !.retryCount = n,
                             !.retryTimers = @ + 1,
                             !.timeoutDelay = delay]
          ELSE LET s2 == notifyListeners(s1,
                           SyncError("WebSocket connection failed after max retries"))
               IN IF s2.config.usePolling /\ s2.pollingTimeout = Null
                  THEN startPolling(s2)
                  ELSE s2
     ELSE s1

\* socket.onclose that waits retryDelay before every retry
onclose_ConstantDelay(st, code) ==
  LET s1 == notifyListeners([st EXCEPT !.isConnected = FALSE],
                            ConnStatus("disconnected", "none"))
  IN IF code # IntentionalCode
     THEN IF s1.retryCount < s1.config.maxRetries
          THEN LET n == s1.retryCount + 1
                   delay == s1.config.retryDelay
               IN [s1 EXCEPT !.retryCount = n,
                             !.retryTimers = @ + 1,
                             !.timeoutDelay = delay]
          ELSE LET s2 == notifyListeners(s1,
                           SyncError("WebSocket connection failed after max retries"))
               IN IF s2.config.usePolling /\ s2.pollingTimeout = Null
                  THEN startPolling(s2)
                  ELSE s2
     ELSE s1

\* socket.onclose that treats every close as a failure
onclose_RetriesAlways(st, code) ==
  LET s1 == notifyListeners([st EXCEPT !.isConnected = FALSE],
                            ConnStatus("disconnected", "none"))
  IN IF s1.retryCount < s1.config.maxRetries
     THEN LET n == s1.retryCount + 1
              delay == n * s1.config.retryDelay
          IN [s1 EXCEPT !.retryCount = n,
                        !.retryTimers = @ + 1,
                        !.timeoutDelay = delay]
     ELSE LET s2 == notifyListeners(s1,
                      SyncError("WebSocket connection failed after max retries"))
          IN IF s2.config.usePolling /\ s2.pollingTimeout = Null
             THEN startPolling(s2)
             ELSE s2

\* socket.onclose with event.code = code
onclose(st, code) ==
  LET s1 == notifyListeners([st EXCEPT !.isConnected = FALSE],
                            ConnStatus("disconnected", "none"))
  IN IF code # IntentionalCode
     THEN IF s1.retryCount < s1.config.maxRetries
          THEN LET n == s1.retryCount + 1
                   delay == n * s1.config.retryDelay
               IN [s1 EXCEPT !.retryCount = n,
                             !.retryTimers = @ + 1,
                             !.timeoutDelay = delay]
          ELSE LET s2 == notifyListeners(s1,
                           SyncError("WebSocket connection failed after max retries"))
               IN IF s2.config.usePolling /\ s2.pollingTimeout = Null
                  THEN startPolling(s2)
                  ELSE s2
     ELSE s1

\* handleWebSocketMessage that reports a message it cannot use as an error
handleWebSocketMessage_ReportsNoise(st, msg) ==
  IF msg.parse # "object"
  THEN notifyListeners(st, SyncError("Error handling WebSocket message"))
  ELSE LET data == msg.data
       IN IF Is(data, "type", "github_event")
          THEN CASE Is(data, "event", "push") ->
                      notifyListeners(st, WebhookUpdate(Get(data, "repository"),
                                                        "branch,commits"))
                 [] Is(data, "event", "pull_request") ->
                      notifyListeners(st, WebhookUpdate(Get(data, "repository"),
                                                        "pullRequest,action"))
                 [] OTHER ->
                      notifyListeners(st, SyncError("Unhandled GitHub event"))
          ELSE IF Is(data, "type", "ping")
               THEN st
               ELSE notifyListeners(st, SyncError("Unknown message type"))

\* handleWebSocketMessage(event), event.data = the text of msg: msg.parse
\* says whether the text is JSON, and of which value ("error": it is not;
\* "null"; "object", whose properties are msg.data).  A text
\* that is no JSON makes JSON.parse throw, and the value null makes
\* data.type throw: both end in the catch, which logs.
handleWebSocketMessage(st, msg) ==
  IF msg.parse # "object"
  THEN st
  ELSE LET data == msg.data
       IN IF Is(data, "type", "github_event")
          THEN CASE Is(data, "event", "push") ->
                      notifyListeners(st, WebhookUpdate(Get(data, "repository"),
                                                        "branch,commits"))
                 [] Is(data, "event", "pull_request") ->
                      notifyListeners(st, WebhookUpdate(Get(data, "repository"),
                                                        "pullRequest,action"))
                 [] OTHER -> st
          ELSE st

\* ------------------------------------------------------------- lifecycle
\* { ...this.config, ...options }
MergeConfig(cfg, options) ==
  [f \in DOMAIN cfg |-> IF f \in DOMAIN options THEN options[f] ELSE cfg[f]]

\* startSync that starts the poll channel whatever usePolling says
startSync_AlwaysPolls(st, options, threw) ==
  LET s1 == [st EXCEPT !.config = MergeConfig(@, options)]
      s2 == notifyListeners(s1, ConnStatus("connecting", "none"))
      s3 == IF s2.config.useWebhooks THEN connectWebSocket(s2, threw) ELSE s2
  IN startPolling(s3)

\* startSync(options)
startSync(st, options, threw) ==
  LET s1 == [st EXCEPT !.config = MergeConfig(@, options)]
      s2 == notifyListeners(s1, ConnStatus("connecting", "none"))
      s3 == IF s2.config.useWebhooks THEN connectWebSocket(s2, threw) ELSE s2
  IN IF s3.config.usePolling THEN startPolling(s3) ELSE s3

\* stopSync()
stopSync(st) ==
  LET s1 == disconnectWebSocket(st)
      s2 == stopPolling(s1)
  IN notifyListeners([s2 EXCEPT !.isConnected = FALSE],
                     ConnStatus("disconnected", "none"))

\* The effect of the panel (useEffect with no dependencies), run when a
\* component instance is mounted: register the three callbacks, start the
\* service with the settings of the instance, fetch the repositories.
mount(st, threw) ==
  LET s0 == [st EXCEPT !.panel = [PanelInit EXCEPT !.mounted = TRUE,
                                                   !.fetching = TRUE,
                                                   !.clock = st.panel.clock]]
      s1 == addEventListener(s0, "repo-updated", "handleRepoUpdate")
      s2 == addEventListener(s1, "connection-status", "handleConnectionStatus")
      s3 == addEventListener(s2, "sync-error", "handleSyncError")
  IN startSync(s3, [useWebhooks |-> TRUE, usePolling |-> TRUE,
                    pollingInterval |-> 60 * 1000], threw)

\* the cleanup of the effect, run when the instance is unmounted: remove the
\* three callbacks, stop the service.  React drops the state updates of an
\* instance that is unmounted.
unmount(st) ==
  LET s0 == [st EXCEPT !.panel.mounted = FALSE]
      s1 == removeEventListener(s0, "repo-updated", "handleRepoUpdate")
      s2 == removeEventListener(s1, "connection-status", "handleConnectionStatus")
      s3 == removeEventListener(s2, "sync-error", "handleSyncError")
  IN stopSync(s3)

\* ------------------------------------------------------------ environment
\* options objects the callers pass to startSync: none, or the settings of
\* the sync panel (useWebhooks, usePolling, pollingInterval in ms)
StartOptions ==
  << <<>>,
     [useWebhooks |-> TRUE, usePolling |-> FALSE,
      pollingInterval |-> DefaultPollingInterval],
     [useWebhooks |-> FALSE, usePolling |-> TRUE,
      pollingInterval |-> DefaultPollingInterval],
     [useWebhooks |-> TRUE, usePolling |-> TRUE,
      pollingInterval |-> DefaultPollingInterval] >>

\* options objects no service can work with: a polling interval of zero, a
\* negative one, a negative number of retries
InvalidOptions ==
  << [pollingInterval |-> 0],
     [pollingInterval |-> 0 - DefaultPollingInterval],
     [maxRetries |-> 0 - 1] >>

\* options objects that change the number of retries: fewer than the
\* default, and the default again
RetryOptions ==
  << [usePolling |-> FALSE, maxRetries |-> 1],
     [usePolling |-> FALSE, maxRetries |-> DefaultMaxRetries] >>

\* response.data.repositories of a successful status request
StatusResponses ==
  << <<>>,
     <<[name |-> "org/repo", hasChanges |-> TRUE, lastUpdate |-> 0],
       [name |-> "org/idle", hasChanges |-> FALSE, lastUpdate |-> 0],
       [name |-> "org/other", hasChanges |-> TRUE, lastUpdate |-> 0]>> >>

\* repository names the callers pass to syncRepository
RepoNames == {"org/repo", "org/other"}

\* response.data of a successful sync request: with the changes, and
\* without any
SyncResponses ==
  << [changes |-> [added |-> 2, modified |-> 1, deleted |-> 0]],
     [status |-> "up-to-date"] >>

\* the errors axios.post rejects with
SyncErrors ==
  << [message |-> "Network Error"],
     [message |-> "Request failed with status code 500"] >>

\* the messages the server sends: no JSON, the JSON value null, and objects
Messages ==
  << [parse |-> "error"],
     [parse |-> "null"],
     [parse |-> "object", data |-> [type |-> "ping"]],
     [parse |-> "object", data |-> [type |-> "keepalive"]],
     [parse |-> "object", data |-> [event |-> "push"]],
     [parse |-> "object",
      data |-> [type |-> "github_event", event |-> "issues",
                repository |-> "org/repo"]],
     [parse |-> "object",
      data |-> [type |-> "github_event", event |-> "push",
                repository |-> "org/repo"]],
     [parse |-> "object",
      data |-> [type |-> "github_event", event |-> "pull_request",
                repository |-> "org/other"]] >>

\* the event names the callers pass to addEventListener: the three kinds,
\* and one the service does not know
EventNames == EventKinds \cup {"repo-deleted"}

\* the callbacks callers other than the panel register
Subscribers == {"failing", "observer"}

\* data.repositories of a successful fetch('/api/github/repos')
FetchedRepositories ==
  <<[name |-> "org/repo", lastUpdate |-> 0, hasChanges |-> FALSE,
     lastEvent |-> Undefined]>>

\* event.code of the close event of a socket, by its readyState: a
\* connection that never opened closes abnormally, also when close() was
\* called on it; an open one closes cleanly or is lost.
CloseCodes(readyState) ==
  CASE readyState \in {"connecting", "closing-unopened"} -> {AbnormalCode}
    [] readyState \in {"open", "closing"} -> {IntentionalCode, AbnormalCode}
    [] OTHER -> {}

\* the callbacks of the subscribers registered, all kinds together
NumListeners(st) ==
  LET own(cbs) == Len(SelectSeq(cbs, LAMBDA cb : cb \in Subscribers))
  IN own(st.listeners["repo-updated"]) + own(st.listeners["sync-error"])
     + own(st.listeners["connection-status"])

\* the sync requests awaiting a response
NumPending(st) ==
  st.pending["org/repo"] + st.pending["org/other"]

WithinBounds(st) ==
  /\ NumSockets(st) <= MaxSockets
  /\ st.retryTimers <= MaxRetryTimers
  /\ st.inflight <= MaxInflight

\* the runs of equal entries of a sync history
Runs(history) ==
  Cardinality({i \in DOMAIN history : i = 1 \/ history[i] # history[i - 1]})

\* ------------------------------------------------------------------ Init
\* the state the constructor leaves
Init ==
  /\ config = [pollingInterval |-> DefaultPollingInterval,
               useWebhooks |-> TRUE,
               usePolling |-> TRUE,
               maxRetries |-> DefaultMaxRetries,
               retryDelay |-> DefaultRetryDelay]
  /\ isConnected = FALSE
  /\ socket = NoSocket
  /\ pollingTimeout = Null
  /\ retryCount = 0
  /\ dropped = [rs \in ReadyStates |-> 0]
  /\ intervals = {}
  /\ retryTimers = 0
  /\ timeoutDelay = 0
  /\ inflight = 0
  /\ events = <<>>
  /\ lastStatus = [status |-> "none", method |-> "none"]
  /\ listeners = [k \in EventKinds |-> <<>>]
  /\ calls = <<>>
  /\ pending = [r \in RepoNames |-> 0]
  /\ outcome = Returned(Undefined)
  /\ panel = PanelInit
  /\ lastOp = "constructor"
  /\ phase = "new"
  /\ failRun = 0

\* --------------------------------------------------------------- actions
StartSync(i, threw) ==
  LET st == startSync(Svc, StartOptions[i], threw)
  IN /\ threw => st.config.useWebhooks
     /\ WithinBounds(st)
     /\ Commit(st)
     /\ lastOp' = "startSync"
     /\ phase' = "started"
     /\ UNCHANGED failRun

\* startSync(options) with options of InvalidOptions
StartSyncInvalid(i, threw) ==
  LET st == startSync(Svc, InvalidOptions[i], threw)
  IN /\ threw => st.config.useWebhooks
     /\ WithinBounds(st)
     /\ Commit(st)
     /\ lastOp' = "startSync"
     /\ phase' = "started"
     /\ UNCHANGED failRun

\* startSync(options) with options of RetryOptions
StartSyncRetries(i, threw) ==
  LET st == startSync(Svc, RetryOptions[i], threw)
  IN /\ threw => st.config.useWebhooks
     /\ WithinBounds(st)
     /\ Commit(st)
     /\ lastOp' = "startSync"
     /\ phase' = "started"
     /\ UNCHANGED failRun

StopSync ==
  /\ Commit(stopSync(Svc))
  /\ lastOp' = "stopSync"
  /\ phase' = "stopped"
  /\ UNCHANGED failRun

StartPolling ==
  LET st == startPolling(Svc)
  IN /\ WithinBounds(st)
     /\ Commit(st)
     /\ lastOp' = "startPolling"
     /\ UNCHANGED <<phase, failRun>>

StopPolling ==
  /\ Commit(stopPolling(Svc))
  /\ lastOp' = "stopPolling"
  /\ UNCHANGED <<phase, failRun>>

DisconnectWebSocket ==
  /\ Commit(disconnectWebSocket(Svc))
  /\ lastOp' = "disconnectWebSocket"
  /\ UNCHANGED <<phase, failRun>>

\* The events of the held socket (held = TRUE) or of a dropped socket that
\* is in readyState rs.
HasSocket(held, rs) ==
  IF held THEN socket = rs ELSE dropped[rs] > 0

\* the socket taken from readyState rs to readyState to ("closed" sockets
\* that are not held are garbage)
Moved(st, held, rs, to) ==
  IF held
  THEN [st EXCEPT !.socket = to]
  ELSE IF to = "closed"
       THEN [st EXCEPT !.dropped[rs] = @ - 1]
       ELSE [st EXCEPT !.dropped[rs] = @ - 1, !.dropped[to] = @ + 1]

\* the connection of a socket is established
SocketOpen(held) ==
  /\ HasSocket(held, "connecting")
  /\ Commit(onopen(Moved(Svc, held, "connecting", "open")))
  /\ lastOp' = "onopen"
  /\ failRun' = 0
  /\ UNCHANGED phase

\* a socket reports an error
SocketError(held, rs) ==
  /\ rs \in {"connecting", "open"}
  /\ HasSocket(held, rs)
  /\ WithinBounds(onerror(Svc))
  /\ Commit(onerror(Svc))
  /\ lastOp' = "onerror"
  /\ UNCHANGED <<phase, failRun>>

\* the connection of a socket is closed, with event.code = code
SocketClose(held, rs, code) ==
  LET st == onclose(Moved(Svc, held, rs, "closed"), code)
      retry == code # IntentionalCode /\ retryCount < config.maxRetries
      fallback == code # IntentionalCode /\ ~(retryCount < config.maxRetries)
  IN /\ HasSocket(held, rs)
     /\ code \in CloseCodes(rs)
     /\ WithinBounds(st)
     /\ Commit(st)
     /\ lastOp' = IF retry THEN "onclose:retry"
                  ELSE IF fallback THEN "onclose:fallback"
                  ELSE "onclose:intentional"
     /\ failRun' = IF code # IntentionalCode
                   THEN Min(failRun + 1, config.maxRetries + 1)
                   ELSE failRun
     /\ phase' = IF fallback /\ phase = "started" THEN "exhausted" ELSE phase

\* a retry timer fires: () => this.connectWebSocket()
RetryTimer(threw) ==
  LET st == connectWebSocket([Svc EXCEPT !.retryTimers = @ - 1], threw)
  IN /\ retryTimers > 0
     /\ WithinBounds(st)
     /\ Commit(st)
     /\ lastOp' = "retryTimer"
     /\ UNCHANGED <<phase, failRun>>

\* an interval timer fires: pollRepositories()
PollTick(t) ==
  LET st == pollRepositories(Svc)
  IN /\ t \in intervals
     /\ WithinBounds(st)
     /\ Commit(st)
     /\ lastOp' = "pollTick"
     /\ UNCHANGED <<phase, failRun>>

\* a status request is answered
PollSuccess(i) ==
  /\ inflight > 0
  /\ LET st == pollSucceeded([Svc EXCEPT !.inflight = @ - 1], StatusResponses[i])
     IN /\ WithinBounds(st)
        /\ Commit(st)
  /\ lastOp' = "pollSuccess"
  /\ UNCHANGED <<phase, failRun>>

\* a status request fails
PollFailure ==
  /\ inflight > 0
  /\ LET st == pollFailed([Svc EXCEPT !.inflight = @ - 1])
     IN /\ WithinBounds(st)
        /\ Commit(st)
  /\ lastOp' = "pollFailure"
  /\ UNCHANGED <<phase, failRun>>

\* a message arrives on the open socket: socket.onmessage
SocketMessage(m) ==
  /\ HasSocket(TRUE, "open")
  /\ LET st == handleWebSocketMessage(Svc, Messages[m])
     IN /\ WithinBounds(st)
        /\ Commit(st)
  /\ lastOp' = "onmessage"
  /\ UNCHANGED <<phase, failRun>>

\* a caller registers a callback
AddEventListener(event, callback) ==
  LET st == addEventListener(Svc, event, callback)
  IN /\ NumListeners(st) <= MaxListeners
     /\ Commit(st)
     /\ lastOp' = "addEventListener"
     /\ UNCHANGED <<phase, failRun>>

\* a caller removes a callback
RemoveEventListener(event, callback) ==
  /\ Commit(removeEventListener(Svc, event, callback))
  /\ lastOp' = "removeEventListener"
  /\ UNCHANGED <<phase, failRun>>

\* a caller asks for a manual sync
SyncRepository(repoName) ==
  LET st == syncRepository(Svc, repoName)
  IN /\ NumPending(st) <= MaxPending
     /\ Commit(st)
     /\ lastOp' = "syncRepository"
     /\ UNCHANGED <<phase, failRun>>

\* a sync request is answered
SyncSuccess(repoName, i) ==
  /\ pending[repoName] > 0
  /\ LET st == syncSucceeded(Svc, repoName, SyncResponses[i])
     IN /\ WithinBounds(st)
        /\ Commit(st)
  /\ lastOp' = "syncSuccess"
  /\ UNCHANGED <<phase, failRun>>

\* a sync request fails
SyncFailure(repoName, i) ==
  /\ pending[repoName] > 0
  /\ LET st == syncFailed(Svc, repoName, SyncErrors[i])
     IN /\ WithinBounds(st)
        /\ Commit(st)
  /\ lastOp' = "syncFailure"
  /\ UNCHANGED <<phase, failRun>>

\* a panel is mounted
Mount(threw) ==
  LET st == mount(Svc, threw)
  IN /\ ~panel.mounted
     /\ ~panel.fetching
     /\ WithinBounds(st)
     /\ Commit(st)
     /\ lastOp' = "mount"
     /\ phase' = "started"
     /\ UNCHANGED failRun

\* the panel is unmounted
Unmount ==
  /\ panel.mounted
  /\ Commit(unmount(Svc))
  /\ lastOp' = "unmount"
  /\ phase' = "stopped"
  /\ UNCHANGED failRun

\* the fetch of the repositories is answered
FetchSuccess ==
  /\ panel.fetching
  /\ Commit(fetchSucceeded(Svc, FetchedRepositories))
  /\ lastOp' = "fetchSuccess"
  /\ UNCHANGED <<phase, failRun>>

\* the user asks the panel for a manual sync: handleManualSync(repoName)
HandleManualSync(repoName) ==
  /\ panel.mounted
  /\ SyncRepository(repoName)

\* the sync request of the panel fails: the catch of syncRepository, then
\* the catch of handleManualSync
ManualSyncFailure(repoName, i) ==
  /\ pending[repoName] > 0
  /\ LET st == manualSyncFailed(syncFailed(Svc, repoName, SyncErrors[i]),
                                SyncErrors[i])
     IN /\ WithinBounds(st)
        /\ Commit(st)
  /\ lastOp' = "syncFailure"
  /\ UNCHANGED <<phase, failRun>>

\* time passes: new Date() gives the panel a later time
Tick ==
  /\ panel.clock < MaxClock
  /\ Commit([Svc EXCEPT !.panel.clock = @ + 1])
  /\ lastOp' = "tick"
  /\ UNCHANGED <<phase, failRun>>

\* startPolling() while status requests may be in flight
RestartPolling ==
  LET st == startPolling(Svc)
  IN /\ st.inflight <= MaxOverlap
     /\ Commit(st)
     /\ lastOp' = "startPolling"
     /\ UNCHANGED <<phase, failRun>>

\* an interval timer fires while status requests may be in flight:
\* pollRepositories()
PollTickOverlapping(t) ==
  LET st == pollRepositories(Svc)
  IN /\ t \in intervals
     /\ st.inflight <= MaxOverlap
     /\ Commit(st)
     /\ lastOp' = "pollTick"
     /\ UNCHANGED <<phase, failRun>>

Next ==
  \/ \E i \in DOMAIN StartOptions, threw \in BOOLEAN : StartSync(i, threw)
  \/ StopSync
  \/ StartPolling
  \/ StopPolling
  \/ DisconnectWebSocket
  \/ \E held \in BOOLEAN : SocketOpen(held)
  \/ \E held \in BOOLEAN, rs \in ReadyStates : SocketError(held, rs)
  \/ \E held \in BOOLEAN, rs \in ReadyStates :
       \E code \in CloseCodes(rs) : SocketClose(held, rs, code)
  \/ \E threw \in BOOLEAN : RetryTimer(threw)
  \/ \E t \in intervals : PollTick(t)
  \/ \E i \in DOMAIN StatusResponses : PollSuccess(i)
  \/ PollFailure

Spec == Init /\ [][Next]_vars

\* The service with its subscribers: callers register and remove callbacks
\* and ask for manual syncs while the push channel delivers messages.  The
\* service is started with the push channel alone (StartOptions[2]).
BusNext ==
  \/ \E event \in EventNames, callback \in Subscribers :
       AddEventListener(event, callback)
  \/ \E event \in EventNames, callback \in Subscribers :
       RemoveEventListener(event, callback)
  \/ StartSync(2, FALSE)
  \/ StopSync
  \/ SocketOpen(TRUE)
  \/ \E m \in DOMAIN Messages : SocketMessage(m)
  \/ \E repoName \in RepoNames : SyncRepository(repoName)
  \/ \E repoName \in RepoNames, i \in DOMAIN SyncResponses :
       SyncSuccess(repoName, i)
  \/ \E repoName \in RepoNames, i \in DOMAIN SyncErrors :
       SyncFailure(repoName, i)

BusSpec == Init /\ [][BusNext]_vars

\* The service under the sync panel: the panel is mounted and unmounted,
\* the user asks for manual syncs, the server answers the requests and sends
\* push messages.  The interval timer does not fire while the panel is
\* watched.
ShortHistory(A) ==
  A /\ Len(panel'.syncHistory) <= MaxHistory

PanelNext ==
  \/ \E threw \in BOOLEAN : Mount(threw)
  \/ Unmount
  \/ FetchSuccess
  \/ \E repoName \in RepoNames : HandleManualSync(repoName)
  \/ \E repoName \in RepoNames : ShortHistory(SyncSuccess(repoName, 1))
  \/ \E repoName \in RepoNames : ShortHistory(ManualSyncFailure(repoName, 1))
  \/ SocketOpen(TRUE)
  \/ \E m \in {3, 7} : ShortHistory(SocketMessage(m))
  \/ PollSuccess(1)
  \/ ShortHistory(PollFailure)

PanelSpec == Init /\ [][PanelNext]_vars

\* The service started by callers that pass options it cannot work with.
ConfigNext ==
  \/ \E i \in DOMAIN InvalidOptions, threw \in BOOLEAN : StartSyncInvalid(i, threw)
  \/ StartSync(1, FALSE)
  \/ StopSync
  \/ \E held \in BOOLEAN : SocketOpen(held)
  \/ \E held \in BOOLEAN, rs \in ReadyStates :
       \E code \in CloseCodes(rs) : SocketClose(held, rs, code)
  \/ \E threw \in BOOLEAN : RetryTimer(threw)
  \/ \E t \in intervals : PollTick(t)
  \/ PollSuccess(1)
  \/ PollFailure

ConfigSpec == Init /\ [][ConfigNext]_vars

\* The service with a subscriber that throws, while its channels fail: the
\* WebSocket cannot be created, sockets report errors and close, status
\* requests fail and push messages are malformed.
FailureNext ==
  \/ \E event \in {"sync-error", "connection-status"} :
       AddEventListener(event, "failing")
  \/ \E threw \in BOOLEAN : StartSync(1, threw)
  \/ SocketOpen(TRUE)
  \/ \E rs \in ReadyStates : SocketError(TRUE, rs)
  \/ \E held \in BOOLEAN, rs \in ReadyStates :
       \E code \in CloseCodes(rs) : SocketClose(held, rs, code)
  \/ \E threw \in BOOLEAN : RetryTimer(threw)
  \/ \E t \in intervals : PollTick(t)
  \/ PollSuccess(2)
  \/ PollFailure
  \/ \E m \in {1, 2} : SocketMessage(m)

FailureSpec == Init /\ [][FailureNext]_vars

\* The service with a subscriber of repo-updated, started with the poll
\* channel, with or without the push channel, which fails.  An interval
\* timer that is set fires again and again, and the server, asked again and
\* again, answers some status request with the repositories that have
\* changes.
LiveNext ==
  \/ AddEventListener("repo-updated", "observer")
  \/ \E i \in {3, 4} : StartSync(i, FALSE)
  \/ \E held \in BOOLEAN : SocketOpen(held)
  \/ \E held \in BOOLEAN, rs \in ReadyStates :
       \E code \in CloseCodes(rs) : SocketClose(held, rs, code)
  \/ \E threw \in BOOLEAN : RetryTimer(threw)
  \/ \E t \in intervals : PollTick(t)
  \/ \E i \in DOMAIN StatusResponses : PollSuccess(i)
  \/ PollFailure

\* an interval timer can fire, and fires
TickEnabled == intervals # {} /\ inflight < MaxInflight
TickStep == lastOp' = "pollTick"

\* a status request can be answered with the repositories that have
\* changes, and is
ReportEnabled == inflight > 0
ReportStep ==
  /\ lastOp' = "pollSuccess"
  /\ \E j \in DOMAIN events' : events'[j].kind = "repo-updated"

\* Weak fairness of the timer (a timer that stays set fires) and strong
\* fairness of the answer with changes (requests made again and again are
\* not all failed or answered without changes), each written with the
\* condition under which its step is possible.
LiveSpec ==
  /\ Init
  /\ [][LiveNext]_vars
  /\ ([]<>(~TickEnabled) \/ []<><<TickStep>>_vars)
  /\ (<>[](~ReportEnabled) \/ []<><<ReportStep>>_vars)

\* The sync history of the panel at its full length: the panel is mounted,
\* the push channel delivers push messages of one repository and reports
\* errors, and time passes.
PlainHistory(A) ==
  A /\ Runs(panel'.syncHistory) <= MaxRuns

HistoryNext ==
  \/ Mount(FALSE)
  \/ SocketOpen(TRUE)
  \/ PlainHistory(SocketMessage(7))
  \/ \E rs \in {"connecting", "open"} : PlainHistory(SocketError(TRUE, rs))
  \/ Tick

HistorySpec == Init /\ [][HistoryNext]_vars

\* The two channels under the panel: the panel is mounted, push messages
\* and poll responses report the repositories, and time passes.
MergeNext ==
  \/ Mount(FALSE)
  \/ SocketOpen(TRUE)
  \/ \E m \in {7, 8} : ShortHistory(SocketMessage(m))
  \/ \E t \in intervals : PollTick(t)
  \/ \E i \in DOMAIN StatusResponses : ShortHistory(PollSuccess(i))
  \/ Tick

MergeSpec == Init /\ [][MergeNext]_vars

\* The poll channel with status requests that outlive the polling interval:
\* the service is started with the poll channel, with or without the push
\* channel, polling is restarted and stopped, the timer fires and the server
\* answers in its own time.
OverlapNext ==
  \/ \E i \in {3, 4} : StartSync(i, FALSE)
  \/ StopSync
  \/ RestartPolling
  \/ StopPolling
  \/ SocketOpen(TRUE)
  \/ \E t \in intervals : PollTickOverlapping(t)
  \/ \E i \in DOMAIN StatusResponses : PollSuccess(i)
  \/ PollFailure

OverlapSpec == Init /\ [][OverlapNext]_vars

\* The push channel under callers that change the number of retries: the
\* service is started and stopped, the connection opens and fails, and the
\* retry timers fire.
RetryNext ==
  \/ \E i \in DOMAIN RetryOptions : StartSyncRetries(i, FALSE)
  \/ StopSync
  \/ \E held \in BOOLEAN : SocketOpen(held)
  \/ \E held \in BOOLEAN, rs \in ReadyStates :
       \E code \in CloseCodes(rs) : SocketClose(held, rs, code)
  \/ \E threw \in BOOLEAN : RetryTimer(threw)

RetrySpec == Init /\ [][RetryNext]_vars

\* ----------------------------------------------------------------------
\* Properties
\* ----------------------------------------------------------------------
OncloseOps == {"onclose:retry", "onclose:fallback", "onclose:intentional"}

\* C1: once stopSync() has closed the connection intentionally, no retry
\* timer invokes connectWebSocket before the next startSync(), also when the
\* retry had been scheduled by a failure that preceded the stop.
C1_NoRetryAfterStop ==
  phase = "stopped" => lastOp # "retryTimer"

C3_PollingAfterMaxRetriesFailures ==
  (lastOp \in OncloseOps /\ failRun = config.maxRetries /\ config.usePolling)
    => pollingTimeout # Null

\* C3 as amended: right after the (maxRetries+1)-th consecutive
\* non-intentional close (no successful open in between), with usePolling
\* set, the polling timer is active.
C3_PollingAfterExhaustion ==
  (lastOp \in {"onclose:retry", "onclose:fallback"}
     /\ failRun = config.maxRetries + 1 /\ config.usePolling)
    => pollingTimeout # Null

C3_Witness ==
  /\ lastOp = "onclose:fallback"
  /\ failRun = config.maxRetries + 1
  /\ config.usePolling
  /\ pollingTimeout # Null
  /\ inflight = 1
  /\ phase = "exhausted"

\* C4: once the push channel is exhausted (the close after maxRetries
\* retries), no retry is pending and no connection attempt is made before
\* startSync() is called again.
C4_ExhaustedEndsReconnection ==
  phase = "exhausted" => (retryTimers = 0 /\ lastOp # "retryTimer")

\* C5: with useWebhooks and usePolling set, after the push channel is
\* exhausted no connection-status event names the webhook method or reports
\* disconnected.
NoPushStatus(evs) ==
  \A i \in DOMAIN evs :
    evs[i].kind = "connection-status" =>
      (evs[i].method # "webhook" /\ evs[i].status # "disconnected")

C5_PollingStatusIsFinal ==
  [][(phase = "exhausted" /\ phase' = "exhausted"
        /\ config.useWebhooks /\ config.usePolling)
       => NoPushStatus(events')]_vars

\* C6: every successful open sets retryCount to 0, and the fallback branch
\* is taken only by a close that more than maxRetries consecutive failures
\* precede since the last successful open: each connection has the full
\* budget of maxRetries retries.
C6_OpenResetsRetryCount ==
  /\ lastOp = "onopen" => retryCount = 0
  /\ lastOp = "onclose:fallback" => failRun = config.maxRetries + 1
  /\ lastOp = "onclose:retry" => retryCount = failRun

C6_Witness ==
  /\ lastOp = "onopen"
  /\ retryCount = 0
  /\ phase = "exhausted"

\* C7: the k-th consecutive retry (k = 1..maxRetries) is scheduled with a
\* delay of exactly k * retryDelay; with retryDelay > 0 the delays of a run
\* increase strictly, and none is capped.
C7_LinearBackoff ==
  lastOp = "onclose:retry" =>
    /\ failRun \in 1..config.maxRetries
    /\ timeoutDelay = failRun * config.retryDelay
    /\ config.retryDelay > 0

C7_Witness ==
  /\ lastOp = "onclose:retry"
  /\ failRun = DefaultMaxRetries
  /\ timeoutDelay = DefaultMaxRetries * DefaultRetryDelay

\* C8: at most one WebSocket that is connecting or open exists.
ActiveSockets ==
  (IF socket \in {"connecting", "open"} THEN 1 ELSE 0)
  + dropped["connecting"] + dropped["open"]

C8_OneActiveConnection ==
  ActiveSockets <= 1

C8_Witness ==
  /\ lastOp \in {"startSync", "retryTimer"}
  /\ socket = "connecting"
  /\ dropped["closing"] + dropped["closing-unopened"] > 0

\* C9: right after stopSync() the service holds no socket and no polling
\* timer, and while it is stopped a polling timer comes into being only by
\* a call of startSync() or startPolling(), so that no poll tick fires.
C9_StopReleasesChannels ==
  [][/\ lastOp' = "stopSync" =>
          (socket' = NoSocket /\ pollingTimeout' = Null /\ intervals' = {})
     /\ (phase = "stopped" /\ pollingTimeout = Null
           /\ lastOp' \notin {"startSync", "startPolling"})
          => (pollingTimeout' = Null /\ intervals' = {})]_vars

\* C10: from stopSync() to the next startSync() isConnected is false and the
\* last connection-status event is {status: disconnected}.
C10_StoppedStaysDisconnected ==
  phase = "stopped" =>
    (~isConnected /\ lastStatus.status = "disconnected")

\* C11: when the request of syncRepository fails, one sync-error event and
\* no other event is emitted, and the error the request failed with is
\* thrown to the caller.
C11_FailedSyncReportsAndThrows ==
  lastOp = "syncFailure" =>
    /\ Len(events) = 1
    /\ events[1].kind = "sync-error"
    /\ outcome.kind = "thrown"
    /\ \E i \in DOMAIN SyncErrors : outcome.value = SyncErrors[i]
    /\ events[1].details = outcome.value.message

C11_Witness ==
  /\ lastOp = "syncFailure"
  /\ outcome.kind = "thrown"
  /\ Len(calls) = 2
  /\ calls[1].callback = "failing"
  /\ calls[2].data.kind = "sync-error"

\* C12: when the request of syncRepository(repoName) succeeds with
\* response.data, the one event emitted is a repo-updated event with
\* source manual, repository repoName and the changes of response.data, and
\* response.data is returned to the caller.
C12_SuccessfulSyncReportsAndReturns ==
  [][lastOp' = "syncSuccess" =>
     \A repoName \in RepoNames, i \in DOMAIN SyncResponses :
       SyncSuccess(repoName, i) =>
         /\ events' = <<[kind |-> "repo-updated", repository |-> repoName,
                         source |-> "manual",
                         changes |-> Get(SyncResponses[i], "changes")]>>
         /\ outcome' = Returned(SyncResponses[i])]_vars

C12_Witness ==
  /\ lastOp = "syncSuccess"
  /\ outcome.kind = "returned"
  /\ "changes" \in DOMAIN outcome.value
  /\ Len(events) = 1
  /\ events[1].source = "manual"
  /\ events[1].repository = "org/other"
  /\ isConnected
  /\ Len(calls) > 0

\* C13: after a successful manual sync of a repository the panel's entry of
\* that repository has hasChanges = false and a last event of source manual,
\* and the sync history has one entry more, the new one of source manual.
C13_ManualSyncClearsPending ==
  [][(lastOp' = "syncSuccess" /\ panel.mounted) =>
       LET repo == events'[1].repository
           idx == FindIndex(panel'.repositories, repo)
       IN /\ idx > 0
          /\ panel'.repositories[idx].lastEvent.source = "manual"
          /\ Len(panel'.syncHistory) = Len(panel.syncHistory) + 1
          /\ panel'.syncHistory[1].source = "manual"
          /\ ~panel'.repositories[idx].hasChanges]_vars

\* the events of the last handler reached every callback that was registered
\* for their kind
Delivered ==
  \A i \in DOMAIN events :
    \A k \in DOMAIN listeners[events[i].kind] :
      \E j \in DOMAIN calls :
        calls[j] = [callback |-> listeners[events[i].kind][k], data |-> events[i]]

\* C14: a callback that throws keeps no other callback of the kind from
\* being called with the event, and its exception does not leave
\* notifyListeners: the only handler that throws is a failed syncRepository.
C14_ThrowingCallbackIsIsolated ==
  /\ Delivered
  /\ outcome.kind = "thrown" => lastOp = "syncFailure"
  /\ lastOp = "syncSuccess" => outcome.kind = "returned"

C14_Witness ==
  /\ lastOp = "syncSuccess"
  /\ Len(calls) = 2
  /\ calls[1].callback = "failing"
  /\ calls[2].callback = "observer"
  /\ calls[2].data = events[1]
  /\ outcome.kind = "returned"

\* the calls a handler that emits evs makes, the arrays of callbacks being
\* regs: event by event, and within an event in array order
ExpectedCalls(regs, evs) ==
  LET upto[i \in 0..Len(evs)] ==
        IF i = 0 THEN <<>>
        ELSE upto[i - 1] \o
             [k \in 1..Len(regs[evs[i].kind]) |->
                [callback |-> regs[evs[i].kind][k], data |-> evs[i]]]
  IN upto[Len(evs)]

\* C15: a handler calls, before it ends, the callbacks that were registered
\* when it began, for each event in the order they were added (a callback is
\* added at the end of its array); a callback is not called when it is
\* added, so it receives no event dispatched earlier.
C15_DispatchInSubscriptionOrder ==
  [][/\ calls' = ExpectedCalls(listeners, events')
     /\ lastOp' = "addEventListener" =>
          \A event \in EventKinds, callback \in Subscribers :
            AddEventListener(event, callback) =>
              /\ listeners'[event] = Append(listeners[event], callback)
              /\ calls' = <<>>]_vars

C15_Witness ==
  /\ lastOp = "onmessage"
  /\ listeners["repo-updated"] = <<"observer", "failing">>
  /\ Len(calls) = 2
  /\ calls[1].callback = "observer"
  /\ calls[2].callback = "failing"

\* a message the service has no use for: no JSON, no object, a keepalive,
\* an unknown type, or a github_event of an unknown event
Noise(msg) ==
  \/ msg.parse # "object"
  \/ ~Is(msg.data, "type", "github_event")
  \/ ~(Is(msg.data, "event", "push") \/ Is(msg.data, "event", "pull_request"))

\* C16: a message the service has no use for is dropped: the handler emits
\* no event, calls no callback, changes no field of the service, closes no
\* socket and returns.
C16_NoiseIsDropped ==
  [][lastOp' = "onmessage" =>
     \A m \in DOMAIN Messages :
       (SocketMessage(m) /\ Noise(Messages[m])) =>
         /\ events' = <<>>
         /\ calls' = <<>>
         /\ outcome' = Returned(Undefined)
         /\ UNCHANGED <<config, isConnected, socket, pollingTimeout,
                        retryCount, dropped, intervals, retryTimers, inflight,
                        listeners, pending, panel, lastStatus>>]_vars

C16_Witness ==
  /\ lastOp = "onmessage"
  /\ events = <<>>
  /\ socket = "open"
  /\ isConnected
  /\ listeners["sync-error"] # <<>>
  /\ listeners["repo-updated"] # <<>>

\* the repo-updated events of a poll answered with repos: one for each
\* repository that has changes, in the order of the response
PollingUpdates(repos) ==
  LET changed == SelectSeq(repos, LAMBDA repo : repo.hasChanges)
  IN [j \in 1..Len(changed) |->
        [kind |-> "repo-updated", repository |-> changed[j].name,
         source |-> "polling", lastUpdate |-> changed[j].lastUpdate,
         changes |-> Get(changed[j], "changes")]]

\* C17: the repo-updated events of a successful poll are one event of
\* source polling for each repository of the response that has changes, in
\* response order, and none for a repository without changes.
C17_PollReportsChangedRepositories ==
  [][lastOp' = "pollSuccess" =>
     \A i \in DOMAIN StatusResponses :
       PollSuccess(i) =>
         SelectSeq(events', LAMBDA ev : ev.kind = "repo-updated")
           = PollingUpdates(StatusResponses[i])]_vars

C17_Witness ==
  /\ lastOp = "pollSuccess"
  /\ Len(events) = 3
  /\ events[1].repository = "org/repo"
  /\ events[2].repository = "org/other"
  /\ events[3] = ConnStatus("connected", "polling")

\* C18: a failed poll leaves the polling timer as it is: the handle, the
\* timer and its interval are unchanged, so a timer that was active is still
\* active and ticks at the same interval.
C18_FailedPollKeepsSchedule ==
  [][lastOp' = "pollFailure" =>
       /\ UNCHANGED <<pollingTimeout, intervals>>
       /\ pollingTimeout # Null =>
            \E t \in intervals' :
              t.id = pollingTimeout' /\ t.interval = config.pollingInterval]_vars

C18_Witness ==
  /\ lastOp = "pollFailure"
  /\ pollingTimeout # Null
  /\ lastStatus.status = "error"
  /\ events = <<SyncError("Repository polling failed")>>

\* C19: after a successful poll the last connection-status event says
\* connected, and after a failed poll it says error.
C19_PollSetsStatus ==
  /\ lastOp = "pollSuccess" => lastStatus.status = "connected"
  /\ lastOp = "pollFailure" => lastStatus.status = "error"

\* C20: stopPolling() leaves no handle and no timer of that handle; a second
\* call changes nothing, and neither does a call when no handle is held.
C20_StopPollingIdempotent ==
  LET once == stopPolling(Svc)
      twice == stopPolling(once)
  IN /\ once.pollingTimeout = Null
     /\ \A t \in once.intervals : t.id # pollingTimeout
     /\ twice = once
     /\ pollingTimeout = Null => once = Svc
     /\ lastOp = "stopPolling" => pollingTimeout = Null

C20_Witness ==
  /\ lastOp = "stopPolling"
  /\ pollingTimeout = Null
  /\ intervals = {}
  /\ inflight = 1
  /\ phase = "started"

\* the handler that ran last gave the panel an event that it records
Recorded ==
  \/ lastOp = "onerror"
  \/ lastOp = "onmessage" /\ events # <<>>

\* C21: the sync history never has more than 20 entries and is in the order
\* of arrival, the newest entry first; an event that is recorded becomes the
\* first entry, the entries there were follow it in their order, and when
\* there were 20 the last of them, the oldest, and no other is dropped.
C21_HistoryRingEvictsOldest ==
  [][LET prev == panel.syncHistory
         history == panel'.syncHistory
     IN /\ Len(history) <= HistoryKept + 1
        /\ \A i, j \in DOMAIN history :
             i < j => history[i].timestamp >= history[j].timestamp
        /\ Recorded' =>
             /\ Len(history) = Min(Len(prev) + 1, HistoryKept + 1)
             /\ history[1].timestamp = panel'.clock
             /\ history[1].error = (lastOp' = "onerror")
             /\ \A i \in 2..Len(history) : history[i] = prev[i - 1]]_vars

C21_Witness ==
  /\ Recorded
  /\ Len(panel.syncHistory) = HistoryKept + 1
  /\ panel.syncHistory[1].timestamp = MaxClock
  /\ ~panel.syncHistory[1].error
  /\ ~panel.syncHistory[HistoryKept].error
  /\ panel.syncHistory[HistoryKept + 1].error
  /\ panel.syncHistory[HistoryKept + 1].timestamp = 0

\* C22: every repo-updated event the push channel or the poll channel gives
\* the mounted panel becomes a history entry of its own, with the source
\* and the data of the event, whatever the history has of that repository
\* from the other channel; the entries there were stay.
C22_BothChannelsRecorded ==
  [][(panel.mounted /\ lastOp' \in {"onmessage", "pollSuccess"}) =>
       LET evs == SelectSeq(events', LAMBDA ev : ev.kind = "repo-updated")
           k == Len(evs)
           prev == panel.syncHistory
           history == panel'.syncHistory
       IN /\ Len(history) = Min(Len(prev) + k, HistoryKept + 1)
          /\ \A i \in 1..k :
               /\ ~history[k + 1 - i].error
               /\ history[k + 1 - i].repository = evs[i].repository
               /\ history[k + 1 - i].source = evs[i].source
               /\ history[k + 1 - i].details = evs[i]
          /\ \A i \in (k + 1)..Len(history) : history[i] = prev[i - k]]_vars

C22_Witness ==
  /\ lastOp = "pollSuccess"
  /\ Len(panel.syncHistory) = 3
  /\ panel.syncHistory[1].repository = "org/other"
  /\ panel.syncHistory[2].repository = "org/repo"
  /\ panel.syncHistory[2].source = "polling"
  /\ panel.syncHistory[3].repository = "org/repo"
  /\ panel.syncHistory[3].source = "webhook"

\* the time of the event a history entry records: the time the server gives
\* for the change, or for an event without one the time it arrived
EventTime(entry) ==
  IF "lastUpdate" \in DOMAIN entry.details
  THEN entry.details.lastUpdate
  ELSE entry.timestamp

\* C23: the lastUpdate the panel stores for a repository is the latest of
\* the times of the events it was given for that repository.
C23_LastUpdateIsMaxTimestamp ==
  \A i \in DOMAIN panel.repositories :
    LET repo == panel.repositories[i]
        history == panel.syncHistory
        times == {EventTime(history[j]) :
                    j \in {n \in DOMAIN history :
                             /\ ~history[n].error
                             /\ history[n].repository = repo.name}}
    IN times # {} =>
         /\ repo.lastUpdate \in times
         /\ \A time \in times : time <= repo.lastUpdate

\* C24: startSync() opens a new push connection when the merged
\* configuration has useWebhooks (unless the WebSocket cannot be created,
\* which it reports), and starts a polling timer of the configured interval
\* with a poll at once when it has usePolling; a channel whose flag is false
\* is left as it was.
C24_StartSyncStartsEnabledChannels ==
  [][lastOp' = "startSync" =>
       /\ config'.useWebhooks =>
            \/ socket' = "connecting"
            \/ /\ socket' = NoSocket
               /\ \E i \in DOMAIN events' :
                    events'[i] = SyncError("Failed to establish WebSocket connection")
       /\ ~config'.useWebhooks => UNCHANGED <<socket, dropped>>
       /\ config'.usePolling =>
            /\ \E t \in intervals' :
                 t.id = pollingTimeout' /\ t.interval = config'.pollingInterval
            /\ inflight' > inflight
       /\ ~config'.usePolling =>
            UNCHANGED <<pollingTimeout, intervals, inflight>>]_vars

C24_Witness ==
  /\ lastOp = "startSync"
  /\ config.useWebhooks
  /\ ~config.usePolling
  /\ socket = "connecting"
  /\ pollingTimeout = Null
  /\ inflight = 0

\* C25: a startSync() while the service is started leaves a channel whose
\* settings it does not change as it is: the push connection that is
\* connecting or open is kept when useWebhooks stays set, and the polling
\* timer is kept, with no poll at once, when usePolling stays set and
\* pollingInterval is the same.
C25_StartSyncIdempotent ==
  [][(lastOp' = "startSync" /\ phase = "started") =>
       /\ (/\ config.useWebhooks /\ config'.useWebhooks
           /\ socket \in {"connecting", "open"})
            => UNCHANGED <<socket, dropped>>
       /\ (/\ config.usePolling /\ config'.usePolling
           /\ config'.pollingInterval = config.pollingInterval
           /\ pollingTimeout # Null)
            => UNCHANGED <<pollingTimeout, intervals, inflight>>]_vars

\* a configuration no service can work with
InvalidConfig(cfg) ==
  \/ cfg.pollingInterval <= 0
  \/ cfg.maxRetries < 0
  \/ cfg.retryDelay < 0

\* C26: a startSync() whose options make the configuration invalid creates
\* no socket, starts no polling timer, issues no request and leaves the
\* fields of the service, the configuration among them, as they were.
C26_InvalidConfigRejected ==
  [][(lastOp' = "startSync" /\ ~InvalidConfig(config) /\ InvalidConfig(config'))
       => UNCHANGED <<config, isConnected, socket, pollingTimeout, retryCount,
                      dropped, intervals, retryTimers, inflight>>]_vars

\* the events of the last handler that report a failure or the status
Reports ==
  {i \in DOMAIN events : events[i].kind \in {"sync-error", "connection-status"}}

\* C27: no handler of a channel throws, whatever fails and although the
\* subscriber throws: startSync, a retry timer, a socket's error, close and
\* message handlers and an answered poll return.  A WebSocket that cannot
\* be created, a socket error and a failed poll are each reported with a
\* sync-error event, a close with a connection-status event, and a
\* malformed message with no event; the handlers of failures emit no event
\* of another kind.
C27_ChannelFailuresDoNotThrow ==
  /\ outcome.kind = "returned"
  /\ (lastOp \in OncloseOps \cup {"onerror", "pollFailure", "onmessage"})
       => Reports = DOMAIN events
  /\ (lastOp \in {"startSync", "retryTimer"} /\ socket = NoSocket
        /\ config.useWebhooks)
       => \E i \in Reports :
            events[i] = SyncError("Failed to establish WebSocket connection")
  /\ lastOp = "onerror" => events = <<SyncError("WebSocket connection error")>>
  /\ lastOp = "pollFailure" =>
       events[1] = SyncError("Repository polling failed")
  /\ lastOp \in OncloseOps => events[1] = ConnStatus("disconnected", "none")
  /\ lastOp = "onmessage" => events = <<>>

C27_Witness ==
  /\ lastOp = "retryTimer"
  /\ socket = NoSocket
  /\ outcome.kind = "returned"
  /\ Len(calls) = 1
  /\ calls[1].callback = "failing"
  /\ calls[1].data = SyncError("Failed to establish WebSocket connection")
  /\ listeners["connection-status"] = <<"failing">>

\* the sync-error events of exhaustion among evs
TerminalErrors(evs) ==
  {i \in DOMAIN evs :
     evs[i] = SyncError("WebSocket connection failed after max retries")}

\* C28: the close that exhausts the push channel emits one terminal
\* sync-error and leaves the last connection status disconnected; from then
\* to the next startSync() or stopSync(), as long as no poll succeeds, no
\* further terminal sync-error is emitted and the last connection status is
\* error or disconnected.
C28_ExhaustedStatusStays ==
  [][/\ (phase = "started" /\ phase' = "exhausted") =>
          /\ Cardinality(TerminalErrors(events')) = 1
          /\ lastStatus'.status = "disconnected"
     /\ (phase = "exhausted" /\ phase' = "exhausted"
           /\ lastOp' # "pollSuccess") =>
          /\ TerminalErrors(events') = {}
          /\ lastStatus.status \in {"error", "disconnected"}
               => lastStatus'.status \in {"error", "disconnected"}]_vars

\* the last handler called callback with a repo-updated event of the poll
\* channel for repository
PollDelivered(callback, repository) ==
  \E j \in DOMAIN calls :
    /\ calls[j].callback = callback
    /\ calls[j].data.kind = "repo-updated"
    /\ calls[j].data.repository = repository
    /\ calls[j].data.source = "polling"

\* C29: once the service is started with usePolling and a callback is
\* registered for repo-updated, a repo-updated event of the poll channel for
\* the repository that has changes is eventually given to that callback,
\* whatever becomes of the push channel.
C29_PollEventuallyDelivers ==
  (phase = "started" /\ config.usePolling
     /\ listeners["repo-updated"] # <<>>)
    ~> PollDelivered("observer", "org/repo")

C29_Witness ==
  /\ phase = "exhausted"
  /\ lastOp = "pollSuccess"
  /\ socket = "closed"
  /\ PollDelivered("observer", "org/repo")

\* the callbacks of cbs other than callback, in their order
Others(cbs, callback) ==
  SelectSeq(cbs, LAMBDA cb : cb # callback)

C31_PollsOverlap ==
  [][/\ lastOp' = "startPolling" =>
          /\ inflight' = inflight + 1
          /\ pollingTimeout' # Null
          /\ \E t \in intervals' :
               t.id = pollingTimeout' /\ t.interval = config.pollingInterval
     /\ lastOp' = "pollTick" =>
          /\ inflight' = inflight + 1
          /\ UNCHANGED <<intervals, pollingTimeout>>
     /\ lastOp' \in {"pollSuccess", "pollFailure"} =>
          /\ inflight' = inflight - 1
          /\ UNCHANGED <<intervals, pollingTimeout>>]_vars

C31_Witness ==
  /\ lastOp = "pollTick"
  /\ inflight >= 2
  /\ pollingTimeout # Null

\* C32: a close event with the intentional code sets isConnected to false
\* and emits connection-status disconnected and nothing else: retryCount is
\* unchanged, no retry timer is set, and the poll channel (timer, handle,
\* requests in flight) is left as it is.
C32_IntentionalCloseIsNoFailure ==
  [][lastOp' = "onclose:intentional" =>
       /\ ~isConnected'
       /\ events' = <<ConnStatus("disconnected", "none")>>
       /\ timeoutDelay' = 0
       /\ UNCHANGED <<retryCount, retryTimers, pollingTimeout, intervals,
                      inflight, config>>]_vars

C32_Witness ==
  /\ lastOp = "onclose:intentional"
  /\ retryCount = config.maxRetries
  /\ config.usePolling
  /\ pollingTimeout = Null
  /\ phase = "started"

\* C33: while the held socket is open isConnected is true; a failed poll
\* that is handled while the socket is open emits no {status: error}, and
\* a successful one no {status: connected, method: polling}.
StatusEvents(evs) ==
  {[status |-> evs[j].status, method |-> evs[j].method] :
     j \in {k \in DOMAIN evs : evs[k].kind = "connection-status"}}

C33_StatusPerChannel ==
  [][(socket = "open" /\ socket' = "open") =>
       /\ isConnected'
       /\ lastOp' = "pollFailure" =>
            [status |-> "error", method |-> "none"] \notin StatusEvents(events')
       /\ lastOp' = "pollSuccess" =>
            [status |-> "connected", method |-> "polling"]
              \notin StatusEvents(events')]_vars

\* C34: right after startSync() a polling timer is active only if
\* config.usePolling is true, a push connection is held only if
\* config.useWebhooks is true, and the timer the service holds has the
\* interval config.pollingInterval.
C34_ChannelsMatchConfig ==
  lastOp = "startSync" =>
    /\ (pollingTimeout # Null \/ intervals # {}) => config.usePolling
    /\ socket \in {"connecting", "open"} => config.useWebhooks
    /\ \A t \in intervals :
         t.id = pollingTimeout => t.interval = config.pollingInterval

\* C35: at most one interval timer is active, and it is the one whose handle
\* the service holds: no timer is active without its handle being held.
C35_OnePollingTimer ==
  /\ Cardinality(intervals) <= 1
  /\ \A t \in intervals : t.id = pollingTimeout
  /\ pollingTimeout # Null => \E t \in intervals : t.id = pollingTimeout

C35_Witness ==
  /\ lastOp = "retryTimer"
  /\ socket = NoSocket
  /\ events = <<SyncError("Failed to establish WebSocket connection")>>
  /\ config.usePolling
  /\ Cardinality(intervals) = 1
  /\ inflight = 0

\* C36: at most one retry timer is pending, and right after a connection
\* attempt (startSync() with useWebhooks, or the firing of a retry timer)
\* none is.
C36_OneReconnectTimer ==
  /\ retryTimers <= 1
  /\ (lastOp = "retryTimer" \/ (lastOp = "startSync" /\ config.useWebhooks))
       => retryTimers = 0

\* C37: an open or close event of a socket the service no longer holds
\* leaves isConnected and retryCount as they are, emits no
\* {status: disconnected} while the held socket is open, and sets no retry
\* timer while the held socket is connecting or open.
C37_SupersededSocketIsInert ==
  [][(lastOp' \in OncloseOps \cup {"onopen"} /\ dropped' # dropped) =>
       /\ UNCHANGED <<isConnected, retryCount>>
       /\ socket = "open" =>
            [status |-> "disconnected", method |-> "none"]
              \notin StatusEvents(events')
       /\ socket \in {"connecting", "open"} => retryTimers' = retryTimers]_vars

\* C38: the number of retries made is never negative and never more than
\* config.maxRetries.
C38_RetryCountWithinBudget ==
  0 <= retryCount /\ retryCount <= config.maxRetries

\* C39: a startSync() that follows a stopSync() leaves retryCount = 0.
C39_RestartResetsRetryCount ==
  [][(lastOp = "stopSync" /\ lastOp' = "startSync") => retryCount' = 0]_vars

====
